---- MODULE Spec2Model ----
(***************************************************************************)
(* MarketResearch (src/market_research.py): identify_niche and its helpers *)
(* _rank_trends, _calculate_potential, _estimate_market_size and           *)
(* _determine_target_audience.                                             *)
(*                                                                         *)
(* Representation.                                                         *)
(*  - A trend is a record [name, strength, growth_rate].  strength is      *)
(*    counted in tenths (7 stands for 0.7), growth_rate is an integer.     *)
(*  - Python compares strings by code point; Codes gives the code points   *)
(*    of every name the model uses and StrLt/StrLe compare them as         *)
(*    Python does.                                                         *)
(*  - A float of the scorer is an IEEE 754 binary64 value [neg, m, e]: the  *)
(*    number m * 2^e with a 53-bit mantissa m (0 has m = 0), m being a     *)
(*    natural number written in base 2^15, least significant digit first.  *)
(*    Division and multiplication round to nearest, ties to even, as the   *)
(*    Python float operations of line 102 do.                              *)
(*  - None is the record NoneVal; a raised exception of a collaborator is  *)
(*    the "raise" branch of the step that calls it.                        *)
(***************************************************************************)
EXTENDS Integers, Sequences, FiniteSets

VARIABLES
    pc,               \* position of the caller / of identify_niche
    data,             \* identify_niche local: data
    trends,           \* identify_niche local: trends (argument of _rank_trends)
    ranked_niches,    \* identify_niche local: ranked_niches (result of _rank_trends)
    idx,              \* 1-based position of the for loop in ranked_niches[:3]
    niche,            \* loop local: niche (argument of _calculate_potential)
    competitors,      \* loop local: competitors (argument of _calculate_potential)
    potential_score,  \* loop local: potential_score (result of _calculate_potential)
    results,          \* identify_niche local: results
    ret,              \* the value identify_niche returned
    calls             \* history: the collaborator calls of the current invocation

vars == << pc, data, trends, ranked_niches, idx, niche, competitors,
           potential_score, results, ret, calls >>

(***************************************************************************)
(* Bounds and input universes                                              *)
(***************************************************************************)
\* longest trend list the trend analyzer returns to identify_niche
MaxTrends == 4
\* longest competitor list the competitor analyzer returns to identify_niche
MaxCompetitors == 1
\* longest trend list handed to _rank_trends when it is exercised alone
MaxRankLen == 3
\* longest competitor list handed to _calculate_potential when exercised alone
MaxScoreCompetitors == 19

NoneVal == [kind |-> "None"]
Unset == [kind |-> "unset"]

\* strength is in tenths: the literal 0.7 of line 79
StrengthThreshold == 7

Strengths == {StrengthThreshold, StrengthThreshold + 1}

\* names of the trends the trend analyzer returns inside identify_niche
OrchNames == {"project_management", "workflow Automation", "x"}
\* names handed to _rank_trends alone: a prefix pair and an upper-case letter
RankNames == {"a", "ab", "B"}
\* names handed to _calculate_potential alone: the table keys and near misses
ScoreNames == {"project_management", "workflow Automation", "x",
               "Project_Management", "workflow automation", "unknown_niche"}

\* growth rates are unvalidated: negative, zero and two positive ones
GrowthRates == {0 - 1, 0, 1, 2}

Codes(s) ==
    CASE s = "a" -> <<97>>
      [] s = "ab" -> <<97, 98>>
      [] s = "B" -> <<66>>
      [] s = "x" -> <<120>>
      [] s = "unknown_niche" ->
            <<117, 110, 107, 110, 111, 119, 110, 95, 110, 105, 99, 104, 101>>
      [] s = "project_management" ->
            <<112, 114, 111, 106, 101, 99, 116, 95, 109, 97, 110, 97, 103,
              101, 109, 101, 110, 116>>
      [] s = "Project_Management" ->
            <<80, 114, 111, 106, 101, 99, 116, 95, 77, 97, 110, 97, 103,
              101, 109, 101, 110, 116>>
      [] s = "workflow Automation" ->
            <<119, 111, 114, 107, 102, 108, 111, 119, 32, 65, 117, 116, 111,
              109, 97, 116, 105, 111, 110>>
      [] s = "workflow automation" ->
            <<119, 111, 114, 107, 102, 108, 111, 119, 32, 97, 117, 116, 111,
              109, 97, 116, 105, 111, 110>>

RECURSIVE SeqLt(_, _)
\* lexicographic order of two code-point sequences (a proper prefix is less)
SeqLt(u, v) ==
    IF v = <<>> THEN FALSE
    ELSE IF u = <<>> THEN TRUE
    ELSE IF Head(u) # Head(v) THEN Head(u) < Head(v)
    ELSE SeqLt(Tail(u), Tail(v))

\* equal strings are decided without walking their code points
StrLt(s, t) == s # t /\ SeqLt(Codes(s), Codes(t))
StrLe(s, t) == s = t \/ StrLt(s, t)

SeqsUpTo(S, n) == UNION { [1..k -> S] : k \in 0..n }

TrendRecords(names, growths) ==
    [name : names, strength : Strengths, growth_rate : growths]

\* the trends the trend analyzer reports inside identify_niche: each name
\* above the strength gate, and the unrecognized one also at the gate
OrchTrends ==
    { t \in TrendRecords(OrchNames, {1}) :
        t.name = "x" \/ t.strength > StrengthThreshold }
\* what the trend analyzer may return to identify_niche
AnalyzerOutputs == SeqsUpTo(OrchTrends, MaxTrends)
\* what _rank_trends is handed when exercised alone
RankInputs == SeqsUpTo(TrendRecords(RankNames, GrowthRates), MaxRankLen)
\* competitor records are opaque: only their number is read
CompetitorRecords == {"c"}
CompetitorOutputs == SeqsUpTo(CompetitorRecords, MaxCompetitors)
ScoreCompetitors == SeqsUpTo(CompetitorRecords, MaxScoreCompetitors)

Min(a, b) == IF a < b THEN a ELSE b

(***************************************************************************)
(* _rank_trends (lines 68-84)                                              *)
(***************************************************************************)
\* mutant of TrendScore: the strength gate left out
TrendScoreUngated(trend) == trend.growth_rate

\* line 79: growth_rate * (1 if strength > 0.7 else 0)
TrendScore(trend) ==
    trend.growth_rate * (IF trend.strength > StrengthThreshold THEN 1 ELSE 0)

\* mutant of ScoredTrends: trends of score 0 are not appended
ScoredTrendsNonZero(ts) ==
    SelectSeq([i \in 1..Len(ts) |->
                  [name |-> ts[i].name, score |-> TrendScore(ts[i])]],
              LAMBDA x : x.score # 0)

\* lines 77-80: the list of (name, score) tuples
ScoredTrends(ts) ==
    [i \in 1..Len(ts) |-> [name |-> ts[i].name, score |-> TrendScore(ts[i])]]

\* mutant of KeyLt: the key is -x[1] alone, the name does not break ties
KeyLtNoTieBreak(x, y) == (0 - x.score) < (0 - y.score)

\* line 83: the sort key (-x[1], x[0]), compared as Python compares tuples
KeyLt(x, y) ==
    \/ (0 - x.score) < (0 - y.score)
    \/ (0 - x.score) = (0 - y.score) /\ StrLt(x.name, y.name)

RECURSIVE InsertSorted(_, _)
\* e placed after every element whose key is not greater (list.sort is stable)
InsertSorted(e, s) ==
    IF s = <<>> THEN << e >>
    ELSE IF KeyLt(e, Head(s)) THEN << e >> \o s
    ELSE << Head(s) >> \o InsertSorted(e, Tail(s))

RECURSIVE SortScored(_, _)
\* line 83: scored_trends.sort(key=...), elements taken left to right
SortScored(todo, acc) ==
    IF todo = <<>> THEN acc
    ELSE SortScored(Tail(todo), InsertSorted(Head(todo), acc))

\* lines 77-83: scored_trends after the sort
SortedScoredTrends(ts) == SortScored(ScoredTrends(ts), <<>>)

\* line 84: [t[0] for t in scored_trends]
_rank_trends(ts) ==
    LET s == SortedScoredTrends(ts) IN [i \in 1..Len(s) |-> s[i].name]

(***************************************************************************)
(* _estimate_market_size (104-118), _calculate_potential (86-102),         *)
(* _determine_target_audience (120-141)                                    *)
(***************************************************************************)
\* naturals beyond the machine word: digits in base 2^15, least significant
\* first, no leading zero digit (0 is the empty sequence)
Base == 2 ^ 15

RECURSIVE BigNorm(_)
BigNorm(a) ==
    IF a = <<>> THEN a
    ELSE IF a[Len(a)] = 0 THEN BigNorm(SubSeq(a, 1, Len(a) - 1))
    ELSE a

RECURSIVE BigFromInt(_)
BigFromInt(n) ==
    IF n = 0 THEN <<>> ELSE << n % Base >> \o BigFromInt(n \div Base)

RECURSIVE BigMulCarry(_, _, _)
BigMulCarry(a, k, carry) ==
    IF a = <<>> THEN BigFromInt(carry)
    ELSE LET t == Head(a) * k + carry
         IN << t % Base >> \o BigMulCarry(Tail(a), k, t \div Base)

\* a * k for a digit k
BigMulSmall(a, k) == BigNorm(BigMulCarry(a, k, 0))

RECURSIVE BigAddCarry(_, _, _)
BigAddCarry(a, b, carry) ==
    IF a = <<>> /\ b = <<>> THEN BigFromInt(carry)
    ELSE LET x == IF a = <<>> THEN 0 ELSE Head(a)
             y == IF b = <<>> THEN 0 ELSE Head(b)
             t == x + y + carry
         IN << t % Base >>
            \o BigAddCarry(IF a = <<>> THEN a ELSE Tail(a),
                           IF b = <<>> THEN b ELSE Tail(b), t \div Base)

BigAdd(a, b) == BigNorm(BigAddCarry(a, b, 0))

RECURSIVE BigSubBorrow(_, _, _)
BigSubBorrow(a, b, borrow) ==
    IF a = <<>> THEN <<>>
    ELSE LET y == IF b = <<>> THEN 0 ELSE Head(b)
             t == Head(a) - y - borrow
         IN << (t + Base) % Base >>
            \o BigSubBorrow(Tail(a), IF b = <<>> THEN b ELSE Tail(b),
                            IF t < 0 THEN 1 ELSE 0)

\* a - b for a >= b
BigSub(a, b) == BigNorm(BigSubBorrow(a, b, 0))

RECURSIVE BigCmpFrom(_, _, _)
BigCmpFrom(a, b, i) ==
    IF i = 0 THEN 0
    ELSE IF a[i] # b[i] THEN (IF a[i] < b[i] THEN 0 - 1 ELSE 1)
    ELSE BigCmpFrom(a, b, i - 1)

\* -1, 0 or 1 as a < b, a = b or a > b
BigCmp(a, b) ==
    IF Len(a) # Len(b) THEN (IF Len(a) < Len(b) THEN 0 - 1 ELSE 1)
    ELSE BigCmpFrom(a, b, Len(a))

RECURSIVE BigMul(_, _)
BigMul(a, b) ==
    IF a = <<>> \/ b = <<>> THEN <<>>
    ELSE BigNorm(BigAdd(BigMulSmall(a, Head(b)), << 0 >> \o BigMul(a, Tail(b))))

RECURSIVE BigDivStep(_, _, _, _, _)
BigDivStep(a, k, i, rem, q) ==
    IF i = 0 THEN [q |-> BigNorm(q), r |-> rem]
    ELSE LET t == rem * Base + a[i]
         IN BigDivStep(a, k, i - 1, t % k, << t \div k >> \o q)

\* quotient and remainder of a by a digit k > 0
BigDivSmall(a, k) == BigDivStep(a, k, Len(a), 0, <<>>)

Zeros(n) == [i \in 1..n |-> 0]

\* a * 2^s and a \div 2^s
BigShl(a, s) ==
    IF a = <<>> THEN a ELSE Zeros(s \div 15) \o BigMulSmall(a, 2 ^ (s % 15))
BigShr(a, s) ==
    IF Len(a) <= s \div 15 THEN <<>>
    ELSE BigDivSmall(SubSeq(a, (s \div 15) + 1, Len(a)), 2 ^ (s % 15)).q

RECURSIVE DigitBits(_)
DigitBits(d) == IF d = 0 THEN 0 ELSE 1 + DigitBits(d \div 2)

\* number of binary digits of a
BitLen(a) ==
    IF a = <<>> THEN 0 ELSE 15 * (Len(a) - 1) + DigitBits(a[Len(a)])

BigOdd(a) == a # <<>> /\ a[1] % 2 = 1

\* binary64: 53 bits of mantissa
Precision == 53

FloatZero == [neg |-> FALSE, m |-> <<>>, e |-> 0]

\* the binary64 nearest to (n + f) * 2^e, ties to even, where 0 <= f < 1 and
\* sticky tells f # 0; n has more than Precision + 1 bits unless it is exact
RoundToFloat(neg, n, sticky, e) ==
    IF n = <<>> THEN FloatZero
    ELSE IF BitLen(n) <= Precision
    THEN [neg |-> neg, m |-> BigShl(n, Precision - BitLen(n)),
          e |-> e - (Precision - BitLen(n))]
    ELSE LET s == BitLen(n) - Precision
             q == BigShr(n, s)
             r == BigSub(n, BigShl(q, s))
             c == BigCmp(r, BigShl(<< 1 >>, s - 1))
             up == c > 0 \/ (c = 0 /\ (sticky \/ BigOdd(q)))
             m1 == IF up THEN BigAdd(q, << 1 >>) ELSE q
         IN IF BitLen(m1) > Precision
            THEN [neg |-> neg, m |-> BigShr(m1, 1), e |-> e + s + 1]
            ELSE [neg |-> neg, m |-> m1, e |-> e + s]

\* a / b of two ints, 0 <= a and 0 < b < 2^15: Python's true division, the
\* quotient correctly rounded
FloatDiv(a, b) ==
    LET d == BigDivSmall(BigShl(BigFromInt(a), 70), b)
    IN RoundToFloat(FALSE, d.q, d.r # 0, 0 - 70)

\* x * y of two floats, the product correctly rounded
FloatMul(x, y) ==
    RoundToFloat(x.neg # y.neg, BigMul(x.m, y.m), FALSE, x.e + y.e)

\* the float literal 1.0
FloatOne == FloatDiv(1, 1)

\* mutant of _estimate_market_size: the keys are matched ignoring case
_estimate_market_size_anycase(n) ==
    IF n \in {"project_management", "Project_Management"} THEN 150
    ELSE IF n \in {"workflow Automation", "workflow automation"} THEN 200
    ELSE 50

_estimate_market_size(n) ==
    IF n = "project_management" THEN 150
    ELSE IF n = "workflow Automation" THEN 200
    ELSE 50

\* mutant of _calculate_potential: 1 / competitor_count, the + 1 left out
_calculate_potential_no_plus_one(n, comps) ==
    IF comps = <<>> THEN FloatOne
    ELSE LET competitor_count == Len(comps)
             market_size == _estimate_market_size(n)
         IN FloatMul(FloatDiv(market_size, 100), FloatDiv(1, competitor_count))

_calculate_potential(n, comps) ==
    IF comps = <<>> THEN FloatOne
    ELSE LET competitor_count == Len(comps)
             market_size == _estimate_market_size(n)
         IN FloatMul(FloatDiv(market_size, 100),
                     FloatDiv(1, competitor_count + 1))

_determine_target_audience(n) ==
    IF n = "project_management" THEN
        [role |-> << "Project Managers", "Developers" >>,
         industry |-> << "Tech", "Consulting", "Construction" >>,
         company_size |-> << "Small", "Medium" >>]
    ELSE IF n = "workflow Automation" THEN
        [role |-> << "IT Professionals", "Operations Managers" >>,
         industry |-> << "Tech", "Manufacturing", "Finance" >>,
         company_size |-> << "Medium", "Large" >>]
    ELSE [role |-> <<>>, industry |-> <<>>, company_size |-> <<>>]

(***************************************************************************)
(* identify_niche (lines 24-66)                                            *)
(***************************************************************************)
\* line 52: ranked_niches[:3]
TopN == 3
\* mutant of Candidates: every ranked niche is a candidate
CandidatesAll(ranked) == ranked
\* mutant of Candidates: ranked_niches[:2]
CandidatesOffByOne(ranked) == SubSeq(ranked, 1, Min(TopN - 1, Len(ranked)))
Candidates(ranked) == SubSeq(ranked, 1, Min(TopN, Len(ranked)))

\* lines 56-61: the report appended for a candidate
Report(n, score, comps) ==
    [niche |-> n,
     potential_score |-> score,
     target_audience |-> _determine_target_audience(n),
     competitors |-> comps]

\* mutant of ReturnValue: results[-1] if results else None
ReturnValueLast(rs) == IF rs # <<>> THEN rs[Len(rs)] ELSE NoneVal

\* line 66: results[0] if results else None
ReturnValue(rs) == IF rs # <<>> THEN rs[1] ELSE NoneVal

CallRec(to, arg, ok, result) ==
    [to |-> to, arg |-> arg, ok |-> ok, result |-> result]

Idle ==
    /\ data = Unset
    /\ trends = <<>>
    /\ ranked_niches = <<>>
    /\ idx = 0
    /\ niche = ""
    /\ competitors = <<>>
    /\ potential_score = Unset
    /\ results = <<>>
    /\ ret = Unset
    /\ calls = <<>>

Init == pc = "idle" /\ Idle

\* the caller invokes identify_niche (line 151); every local starts afresh
Call ==
    /\ pc \in {"idle", "done"}
    /\ pc' = "collect"
    /\ data' = Unset
    /\ trends' = <<>>
    /\ ranked_niches' = <<>>
    /\ idx' = 0
    /\ niche' = ""
    /\ competitors' = <<>>
    /\ potential_score' = Unset
    /\ results' = <<>>
    /\ ret' = Unset
    /\ calls' = <<>>

\* mutant of Collect: a failed collection is tried again
CollectRetry ==
    /\ pc = "collect"
    /\ \/ /\ data' = "market_data"
          /\ calls' = Append(calls, CallRec("data_collector", "", TRUE, <<>>))
          /\ pc' = "analyze"
       \/ /\ calls' = Append(calls, CallRec("data_collector", "", FALSE, <<>>))
          /\ pc' = "collect"
          /\ data' = data
    /\ UNCHANGED << trends, ranked_niches, idx, niche, competitors,
                    potential_score, results, ret >>

\* lines 32-37: data_collector.collect_data() returns or raises
Collect ==
    /\ pc = "collect"
    /\ \/ /\ data' = "market_data"
          /\ calls' = Append(calls, CallRec("data_collector", "", TRUE, <<>>))
          /\ pc' = "analyze"
          /\ ret' = ret
       \/ /\ calls' = Append(calls, CallRec("data_collector", "", FALSE, <<>>))
          /\ ret' = NoneVal
          /\ pc' = "done"
          /\ data' = data
    /\ UNCHANGED << trends, ranked_niches, idx, niche, competitors,
                    potential_score, results >>

\* lines 40-51 (and line 66 when there is no candidate):
\* trend_analyzer.analyze(data) returns a trend list or raises
AnalyzeTrends ==
    /\ pc = "analyze"
    /\ \/ \E t \in AnalyzerOutputs :
            /\ calls' = Append(calls, CallRec("trend_analyzer", data, TRUE, <<>>))
            /\ trends' = t
            /\ ranked_niches' = _rank_trends(t)
            /\ results' = <<>>
            /\ IF Candidates(_rank_trends(t)) = <<>>
               THEN /\ idx' = idx
                    /\ ret' = ReturnValue(<<>>)
                    /\ pc' = "done"
               ELSE /\ idx' = 1
                    /\ ret' = ret
                    /\ pc' = "loop"
       \/ /\ calls' = Append(calls, CallRec("trend_analyzer", data, FALSE, <<>>))
          /\ ret' = NoneVal
          /\ pc' = "done"
          /\ UNCHANGED << trends, ranked_niches, idx, results >>
    /\ UNCHANGED << data, niche, competitors, potential_score >>

\* lines 52-64, one iteration of the loop (and line 66 after the last one):
\* competitor_analyzer.analyze(niche) returns a competitor list or raises
AnalyzeCompetitors ==
    /\ pc = "loop"
    /\ idx <= Len(Candidates(ranked_niches))
    /\ LET n == Candidates(ranked_niches)[idx]
           last == idx = Len(Candidates(ranked_niches))
       IN /\ niche' = n
          /\ idx' = idx + 1
          /\ \/ \E comps \in CompetitorOutputs :
                  LET score == _calculate_potential(n, comps)
                  IN /\ calls' = Append(calls,
                                   CallRec("competitor_analyzer", n, TRUE, comps))
                     /\ competitors' = comps
                     /\ potential_score' = score
                     /\ results' = Append(results, Report(n, score, comps))
             \/ /\ calls' = Append(calls,
                              CallRec("competitor_analyzer", n, FALSE, <<>>))
                /\ UNCHANGED << competitors, potential_score, results >>
          /\ IF last
             THEN ret' = ReturnValue(results') /\ pc' = "done"
             ELSE ret' = ret /\ pc' = "loop"
    /\ UNCHANGED << data, trends, ranked_niches >>

Next == Call \/ Collect \/ AnalyzeTrends \/ AnalyzeCompetitors

Spec == Init /\ [][Next]_vars

(***************************************************************************)
(* _rank_trends called on its own (a unit test of lines 68-84)             *)
(***************************************************************************)
RankInit ==
    /\ pc = "rank_call"
    /\ trends \in RankInputs
    /\ data = Unset
    /\ ranked_niches = <<>>
    /\ idx = 0
    /\ niche = ""
    /\ competitors = <<>>
    /\ potential_score = Unset
    /\ results = <<>>
    /\ ret = Unset
    /\ calls = <<>>

RankTrends ==
    /\ pc = "rank_call"
    /\ ranked_niches' = _rank_trends(trends)
    /\ pc' = "rank_done"
    /\ UNCHANGED << data, trends, idx, niche, competitors, potential_score,
                    results, ret, calls >>

SpecRank == RankInit /\ [][RankTrends]_vars

(***************************************************************************)
(* _calculate_potential called on its own (a unit test of lines 86-118),   *)
(* beside its use by identify_niche                                        *)
(***************************************************************************)
ScoreInit ==
    /\ pc = "score_call"
    /\ niche \in ScoreNames
    /\ competitors \in ScoreCompetitors
    /\ data = Unset
    /\ trends = <<>>
    /\ ranked_niches = <<>>
    /\ idx = 0
    /\ potential_score = Unset
    /\ results = <<>>
    /\ ret = Unset
    /\ calls = <<>>

CalculatePotential ==
    /\ pc = "score_call"
    /\ potential_score' = _calculate_potential(niche, competitors)
    /\ pc' = "score_done"
    /\ UNCHANGED << data, trends, ranked_niches, idx, niche, competitors,
                    results, ret, calls >>

ScoreNext == CalculatePotential \/ Next

SpecScore == (ScoreInit \/ Init) /\ [][ScoreNext]_vars

(***************************************************************************)
(* Vocabulary of the properties                                            *)
(***************************************************************************)
CallsTo(who) == SelectSeq(calls, LAMBDA c : c.to = who)
CompetitorCalls == CallsTo("competitor_analyzer")
CollectorOk ==
    \E i \in 1..Len(calls) : calls[i].to = "data_collector" /\ calls[i].ok
CollectorFailed ==
    \E i \in 1..Len(calls) : calls[i].to = "data_collector" /\ ~calls[i].ok
TrendAnalyzerOk ==
    \E i \in 1..Len(calls) : calls[i].to = "trend_analyzer" /\ calls[i].ok
TrendAnalyzerFailed ==
    \E i \in 1..Len(calls) : calls[i].to = "trend_analyzer" /\ ~calls[i].ok
IsReport(v) == v # Unset /\ v # NoneVal

\* the rank output identify_niche works from
RankOutput == _rank_trends(trends)
\* the size of the top 3 of a rank output
TopCount(ro) == Min(3, Len(ro))
\* cc being the competitor calls made and ro the rank output: the competitor
\* analysis of the k-th ranked candidate succeeded
CandidateSucceeded(cc, ro, k) ==
    /\ k <= Len(cc)
    /\ cc[k].arg = ro[k]
    /\ cc[k].ok
SucceededRanks(cc, ro) ==
    { k \in 1..TopCount(ro) : CandidateSucceeded(cc, ro, k) }
SetMin(S) == CHOOSE k \in S : \A j \in S : k <= j

\* x < y for two floats that are not negative
FloatLt(x, y) ==
    IF y.m = <<>> THEN FALSE
    ELSE IF x.m = <<>> THEN TRUE
    ELSE x.e < y.e \/ (x.e = y.e /\ BigCmp(x.m, y.m) < 0)
\* 0 <= x <= 1
InUnitInterval(x) ==
    \/ x.m = <<>>
    \/ ~x.neg /\ ~FloatLt(FloatOne, x)
\* the float next above a positive float
FloatSucc(x) ==
    LET m1 == BigAdd(x.m, << 1 >>)
    IN IF BitLen(m1) > Precision
       THEN [neg |-> x.neg, m |-> BigShr(m1, 1), e |-> x.e + 1]
       ELSE [neg |-> x.neg, m |-> m1, e |-> x.e]
\* x and y are equal or neighbours: at most one unit in the last place apart
WithinOneUlp(x, y) == x = y \/ x = FloatSucc(y) \/ y = FloatSucc(x)

\* the score the specification gives a trend (strength in tenths)
GatedScore(t) == IF t.strength > 7 THEN t.growth_rate ELSE 0

\* the bijections of 1..n
Perms(n) == { p \in [1..n -> 1..n] : \A i, j \in 1..n : p[i] = p[j] => i = j }
\* every bijection of 1..n for n up to the longest input, as an explicit set
AllPerms == UNION { { p : p \in Perms(n) } : n \in 0..MaxRankLen }
\* the ways to read the name list out as the list ts put in the order of the
\* key (-score, name): p[i] is the input position of the i-th output name
Arrangements(ts, out) ==
    IF Len(out) # Len(ts) THEN {}
    ELSE { p \in AllPerms :
             /\ Len(p) = Len(ts)
             /\ \A i \in 1..Len(ts) : out[i] = ts[p[i]].name
             /\ \A i \in 1..(Len(ts) - 1) :
                  \/ GatedScore(ts[p[i]]) > GatedScore(ts[p[i + 1]])
                  \/ /\ GatedScore(ts[p[i]]) = GatedScore(ts[p[i + 1]])
                     /\ StrLe(ts[p[i]].name, ts[p[i + 1]].name) }
Count(seq, x) == Cardinality({ i \in 1..Len(seq) : seq[i] = x })

(***************************************************************************)
(* Properties of identify_niche                                            *)
(***************************************************************************)
\* C1: when the data collector and the trend analyzer both succeeded,
\* identify_niche returns the report of the highest-ranked candidate among the
\* first 3 names of the rank output whose competitor analysis succeeded, and
\* None exactly when none of them succeeded (also when there are no trends).
C1_FirstSuccessReturned ==
    (pc = "done" /\ CollectorOk /\ TrendAnalyzerOk) =>
        LET cc == CompetitorCalls
            ro == RankOutput
            won == SucceededRanks(cc, ro)
        IN /\ (won = {}) <=> (ret = NoneVal)
           /\ won # {} =>
                LET k == SetMin(won)
                IN ret = Report(ro[k], _calculate_potential(ro[k], cc[k].result),
                                cc[k].result)

\* C1 witness: the highest-ranked candidate failed, the second succeeded and
\* its report is returned.
C1_Witness ==
    /\ pc = "done"
    /\ TrendAnalyzerOk
    /\ LET cc == CompetitorCalls
           ro == RankOutput
       IN /\ Len(cc) = 3
          /\ ~cc[1].ok /\ cc[2].ok /\ cc[3].ok
          /\ ro[2] # ro[3]
          /\ IsReport(ret)
          /\ ret.niche = ro[2]

\* C2: once the competitor analyzer has failed for each of the 3 highest-ranked
\* candidates, identify_niche has returned None and has made no competitor call
\* beyond those 3, whatever the analyzer would do for lower-ranked candidates.
C2_NoFourthCandidate ==
    LET cc == CompetitorCalls
        ro == RankOutput
    IN (Len(cc) >= 3 /\ \A k \in 1..3 : ~cc[k].ok) =>
          /\ Len(cc) = 3
          /\ \A k \in 1..3 : cc[k].arg = ro[k]
          /\ pc = "done"
          /\ ret = NoneVal

\* C2 witness: four trends were ranked, the top 3 failed, None was returned.
C2_Witness ==
    /\ pc = "done"
    /\ Len(RankOutput) >= 4
    /\ Len(CompetitorCalls) = 3
    /\ \A k \in 1..3 : ~CompetitorCalls[k].ok
    /\ ret = NoneVal

\* C3: fatal failures short-circuit without retry: after a collector failure
\* None is returned and neither analyzer is ever called; after a trend analyzer
\* failure None is returned and the competitor analyzer is never called; the
\* collector and the trend analyzer are each called at most once per call.
C3_FatalShortCircuit ==
    /\ Len(CallsTo("data_collector")) <= 1
    /\ Len(CallsTo("trend_analyzer")) <= 1
    /\ CollectorFailed =>
         /\ pc = "done" /\ ret = NoneVal
         /\ CallsTo("trend_analyzer") = <<>>
         /\ CompetitorCalls = <<>>
    /\ TrendAnalyzerFailed =>
         /\ pc = "done" /\ ret = NoneVal
         /\ CompetitorCalls = <<>>

\* C3 witness: the collector succeeded, the trend analyzer failed, None came back.
C3_Witness ==
    /\ pc = "done"
    /\ CollectorOk
    /\ TrendAnalyzerFailed
    /\ ret = NoneVal

\* C4: every value the scorer returns, and the potential_score of every report
\* identify_niche returns, lies in the closed interval [0, 1].
C4_ScoreInUnitInterval ==
    /\ potential_score # Unset => InUnitInterval(potential_score)
    /\ IsReport(ret) => InUnitInterval(ret.potential_score)
    /\ \A i \in 1..Len(results) : InUnitInterval(results[i].potential_score)

\* C4 witness: the largest table entry with a single competitor reaches 1.
C4_Witness ==
    /\ pc = "score_done"
    /\ niche = "workflow Automation"
    /\ Len(competitors) = 1
    /\ potential_score = FloatOne

\* C9 (as claimed): the returned report has the highest potential_score among
\* the reports accumulated in the call.
C9_ReturnsHighestScore ==
    (pc = "done" /\ IsReport(ret)) =>
        \A i \in 1..Len(results) :
            ~FloatLt(ret.potential_score, results[i].potential_score)

\* C10: when collector and trend analyzer succeeded on n trends, the competitor
\* analyzer is called exactly min(3, n) times before the return, once per name
\* of the first min(3, n) of the rank output and in rank order, whatever the
\* earlier outcomes, and only after the collector and the trend analyzer returned.
C10_CompetitorCallsInRankOrder ==
    /\ LET cc == CompetitorCalls
           ro == RankOutput
       IN /\ Len(cc) <= TopCount(ro)
          /\ \A k \in 1..Len(cc) : cc[k].arg = ro[k]
          /\ (pc = "done" /\ TrendAnalyzerOk) => Len(cc) = TopCount(ro)
    /\ \A j \in 1..Len(calls) :
         calls[j].to = "competitor_analyzer" =>
            /\ j >= 3
            /\ calls[1].to = "data_collector" /\ calls[1].ok
            /\ calls[2].to = "trend_analyzer" /\ calls[2].ok
            /\ \A i \in 3..j : calls[i].to = "competitor_analyzer"

\* C10 witness: the first candidate succeeded and the two after it were still
\* analysed, one of them failing.
C10_Witness ==
    /\ pc = "done"
    /\ LET cc == CompetitorCalls
           ro == RankOutput
       IN /\ Len(cc) = 3
          /\ cc[1].ok /\ ~cc[2].ok /\ cc[3].ok
          /\ ro[1] # ro[2]

(***************************************************************************)
(* Properties of _rank_trends                                              *)
(***************************************************************************)
\* C5: the rank output is the input put in the order of the key (-score, name),
\* score being growth_rate when strength > 0.7 and 0 otherwise: adjacent
\* entries have decreasing score, or equal score and names in ascending order.
C5_RankOrderedByKey ==
    pc = "rank_done" => Arrangements(trends, ranked_niches) # {}

\* C5 witness: two trends of equal score given in descending name order come
\* out in ascending name order.
C5_Witness ==
    /\ pc = "rank_done"
    /\ Len(trends) = 2
    /\ GatedScore(trends[1]) = 2
    /\ GatedScore(trends[2]) = 2
    /\ trends[1].name = "ab"
    /\ trends[2].name = "a"
    /\ ranked_niches = << "a", "ab" >>

\* C6 (as claimed): a trend A with strength <= 0.7 never comes before a trend B
\* with strength > 0.7 whose growth_rate is equal to or lower than A's.
C6_GatedNeverBeforeStrong ==
    pc = "rank_done" =>
        \A p \in Arrangements(trends, ranked_niches) :
            \A i, j \in 1..Len(trends) :
                LET A == trends[p[i]]
                    B == trends[p[j]]
                IN ( /\ A.strength <= StrengthThreshold
                     /\ B.strength > StrengthThreshold
                     /\ B.growth_rate <= A.growth_rate )
                   => ~(i < j)

\* C6 (amended): a trend A with strength <= 0.7 never comes before a trend B
\* with strength > 0.7 whose growth_rate is strictly positive and equal to or
\* lower than A's.
C6_GatedNeverBeforePositiveStrong ==
    pc = "rank_done" =>
        LET arr == Arrangements(trends, ranked_niches)
        IN /\ arr # {}
           /\ \A p \in arr :
                \A i, j \in 1..Len(trends) :
                    LET A == trends[p[i]]
                        B == trends[p[j]]
                    IN ( /\ A.strength <= StrengthThreshold
                         /\ B.strength > StrengthThreshold
                         /\ B.growth_rate > 0
                         /\ B.growth_rate <= A.growth_rate )
                       => ~(i < j)

\* C6 witness: A is given first and has the smaller name and the same growth
\* rate as B, and B comes out first.
C6_Witness ==
    /\ pc = "rank_done"
    /\ Len(trends) = 2
    /\ trends[1] = [name |-> "a", strength |-> StrengthThreshold, growth_rate |-> 2]
    /\ trends[2] = [name |-> "ab", strength |-> StrengthThreshold + 1,
                    growth_rate |-> 2]
    /\ ranked_niches = << "ab", "a" >>

\* C7: the rank output has the length of the input and holds every name as
\* often as the input does: nothing dropped, added or deduplicated.
C7_RankIsPermutation ==
    pc = "rank_done" =>
        /\ Len(ranked_niches) = Len(trends)
        /\ \A n \in RankNames \cup { ranked_niches[i] : i \in 1..Len(ranked_niches) } :
             Count(ranked_niches, n)
               = Cardinality({ i \in 1..Len(trends) : trends[i].name = n })

\* C7 witness: an input with a repeated name keeps both occurrences.
C7_Witness ==
    /\ pc = "rank_done"
    /\ Len(trends) = 3
    /\ trends[1].name = trends[3].name
    /\ trends[1].name # trends[2].name
    /\ Count(ranked_niches, trends[1].name) = 2

(***************************************************************************)
(* Properties of _calculate_potential                                      *)
(***************************************************************************)
\* the market-size table as the specification states it
TableMarketSize(n) ==
    CASE n = "project_management" -> 150
      [] n = "workflow Automation" -> 200
      [] OTHER -> 50

\* the floats 0.75 and 0.3 (the nearest to 3/4 and to 3/10)
ThreeQuarters == FloatDiv(3, 4)
ThreeTenths == FloatDiv(3, 10)

\* the float nearest to the quotient market_size / (100 * (competitor_count + 1))
NearestToQuotient(n, comps) ==
    FloatDiv(TableMarketSize(n), 100 * (Len(comps) + 1))

\* v is the specified score of niche n and competitor list comps, as a float
IsSpecScore(v, n, comps) ==
    IF Len(comps) = 0 THEN v = FloatOne
    ELSE v = NearestToQuotient(n, comps)

\* v is 1.0 for no competitor; otherwise it is the float nearest to the
\* quotient when market_size is 200 or 50, within one unit in the last place
\* of it when market_size is 150, and 0.75 for "project_management" with 1
IsFloatScore(v, n, comps) ==
    IF Len(comps) = 0 THEN v = FloatOne
    ELSE LET nearest == NearestToQuotient(n, comps)
         IN /\ TableMarketSize(n) # 150 => v = nearest
            /\ v = nearest \/ WithinOneUlp(v, nearest)
            /\ (n = "project_management" /\ Len(comps) = 1) => v = ThreeQuarters

\* C8 (as claimed): the scorer returns exactly 1 for an empty competitor list
\* and otherwise exactly market_size / (100 * (competitor_count + 1)), with
\* market_size 150 for "project_management", 200 for "workflow Automation"
\* (exact match) and 50 for any other name.
C8_ScoreFormula ==
    /\ pc = "score_done" => IsSpecScore(potential_score, niche, competitors)
    /\ \A i \in 1..Len(results) :
         IsSpecScore(results[i].potential_score, results[i].niche,
                     results[i].competitors)

\* C8 (amended): the scorer returns exactly 1.0 for an empty competitor list;
\* otherwise, with market_size 150 for "project_management", 200 for
\* "workflow Automation" (exact match) and 50 for any other name, it returns
\* the float nearest to market_size / (100 * (competitor_count + 1)) when
\* market_size is 200 or 50, and a float at most one unit in the last place
\* from it when market_size is 150; 0.75 for "project_management" with 1
\* competitor and 0.1 for an unrecognized niche with 4 are exact.
C8_ScoreFormulaRounded ==
    /\ pc = "score_done" => IsFloatScore(potential_score, niche, competitors)
    /\ \A i \in 1..Len(results) :
         IsFloatScore(results[i].potential_score, results[i].niche,
                      results[i].competitors)

\* C8 witness: "project_management" with 4 competitors scores the float next
\* to the one nearest to 3/10.
C8_Witness ==
    /\ pc = "score_done"
    /\ niche = "project_management"
    /\ Len(competitors) = 4
    /\ potential_score # ThreeTenths
    /\ WithinOneUlp(potential_score, ThreeTenths)

====
